---- MODULE Spec2Model ----
(***************************************************************************)
(* Model of flash-uboot.py: the update engine of the script body (the      *)
(* compare loop, the verify-only exit and the write loop over the sections *)
(* spl, uboot, uboot-second), the two flash backends mmc_device and        *)
(* mtd_device, and the version extractor parse_version.                    *)
(*                                                                         *)
(* Bytes are integers 0..255.  A file or a device is a sequence of bytes.  *)
(* An absent optional value (a Python None) is the empty tuple, a present  *)
(* one is a one-element tuple.                                             *)
(***************************************************************************)
EXTENDS Integers, Sequences, FiniteSets, TLC

\* Bounds of the engine model.
MaxLen == 2
MaxSize == 2
MaxOffset == 2

None == <<>>
Some(x) == <<x>>

Min(a, b) == IF a < b THEN a ELSE b
Max(a, b) == IF a > b THEN a ELSE b
abs(x) == IF x < 0 THEN -x ELSE x

\* A sequence of n copies of byte b.
Fill(n, b) == [i \in 1..n |-> b]

flash_types == {"mtd", "mmc"}

\* SectionOrder with the first two sections exchanged.
SectionOrder_Swapped == <<"uboot", "spl", "uboot-second">>

\* The order of the three for-loops of the script body.
SectionOrder == <<"spl", "uboot", "uboot-second">>
Sections == {"spl", "uboot", "uboot-second"}

\* Device nodes: the one MMC block device, and one MTD node per partition.
MmcDev == "mmcblk"
MtdDevOf(section) ==
    CASE section = "spl" -> "mtd0"
      [] section = "uboot" -> "mtd1"
      [] section = "uboot-second" -> "mtd2"
Devices == {"mmcblk", "mtd0", "mtd1", "mtd2"}

VARIABLES
    args,       \* the parsed command line
    flash,      \* data['flash']: the backend object
    media,      \* device node -> content (bytes)
    media0,     \* history: the content of the devices when the script started
    data,       \* data[section]: the candidate of each section
    pc,         \* position in the script body
    idx,        \* index of the running for-loop into SectionOrder
    gpioValue,  \* /sys/class/gpio/gpioN/value: 0 write-enabled, 1 write-disabled
    forceRo,    \* /sys/block/<dev>/force_ro: 0 writable, 1 read-only
    exc,        \* an exception is propagating out of the try block
    log,        \* history: the calls made on the medium and the guards
    exitStatus, \* the process's exit status, -1 while running
    buf,        \* parse_version: the buffer
    start,      \* parse_version: local start
    end,        \* parse_version: local end
    vpc,        \* parse_version: position
    result,     \* parse_version: the returned string (code points)
    proc_mtd,   \* mtd_device.__init__: the text of /proc/mtd
    slist,      \* mtd_device.__init__: the lines still to be looked at
    partitions, \* mtd_device.__init__: self._partitions
    dpc         \* mtd_device.__init__: position

engineVars == <<args, flash, media, media0, data, pc, idx, gpioValue, forceRo, exc, log, exitStatus>>
versionVars == <<buf, start, end, vpc, result>>
discoveryVars == <<proc_mtd, slist, partitions, dpc>>
vars == <<args, flash, media, media0, data, pc, idx, gpioValue, forceRo, exc, log, exitStatus,
          buf, start, end, vpc, result, proc_mtd, slist, partitions, dpc>>

----------------------------------------------------------------------------
\* get_md5: a digest, determined by the content and distinct for distinct
\* contents of the sizes modelled.
get_md5(b) == <<"md5", Len(b), b>>

\* get_buf: seek to offset, read at most size bytes; a read at or past the end
\* of the file returns what is there, possibly nothing.
get_buf(content, offset, size) ==
    SubSeq(content, offset + 1, Min(offset + size, Len(content)))

\* create_file_data
create_file_data(file) ==
    [present |-> TRUE, size |-> Len(file), buf |-> file, md5 |-> get_md5(file),
     need_to_flash |-> FALSE]

NoFileData ==
    [present |-> FALSE, size |-> 0, buf |-> <<>>, md5 |-> get_md5(<<>>),
     need_to_flash |-> FALSE]

----------------------------------------------------------------------------
\* The backends.  A backend is [type, size, sections]; sections maps a section
\* name to None or Some([dev, size, offset]).

mmc_device(devSize, spl_offset, uboot_offset) ==
    [type |-> "mmc",
     size |-> devSize,
     sections |-> [s \in Sections |->
        CASE s = "spl" -> Some([dev |-> MmcDev, size |-> devSize, offset |-> spl_offset])
          [] s = "uboot" -> Some([dev |-> MmcDev, size |-> devSize, offset |-> uboot_offset])
          [] OTHER -> None]]

\* mtd_device with the offset of line 104 taken from the wrong argument: the
\* second copy is placed at the SPL offset.
mtd_device_SecondAtSplOffset(names, partSize, spl_offset, uboot_offset) ==
    [type |-> "mtd",
     size |-> 0,
     sections |-> [s \in Sections |->
        IF s \in names
        THEN Some([dev |-> MtdDevOf(s), size |-> partSize[s],
                   offset |-> IF s = "uboot" THEN uboot_offset ELSE spl_offset])
        ELSE None]]

\* names: the partition names listed by /proc/mtd, as section names;
\* partSize[s]: the size column of that partition's line.
mtd_device(names, partSize, spl_offset, uboot_offset) ==
    [type |-> "mtd",
     size |-> 0,
     sections |-> [s \in Sections |->
        IF s \in names
        THEN Some([dev |-> MtdDevOf(s), size |-> partSize[s],
                   offset |-> IF s = "spl" THEN spl_offset ELSE uboot_offset])
        ELSE None]]

has_section(f, section) == f.sections[section] # None

SectionOf(f, section) == f.sections[section][1]

\* mmc_device.size / mtd_device.size
size(f, section) ==
    IF f.type = "mmc"
    THEN abs(f.size - SectionOf(f, section).offset)
    ELSE abs(SectionOf(f, section).size - SectionOf(f, section).offset)

\* mmc_device.read / mtd_device.read
read(f, m, section, n) ==
    get_buf(m[SectionOf(f, section).dev], SectionOf(f, section).offset, n)

\* Stored with the seek of lines 74 and 127 lost: the bytes go to the start
\* of the device.
Stored_AtZero(content, offset, b) ==
    [i \in 1..Len(content) |-> IF i <= Len(b) THEN b[i] ELSE content[i]]

\* What a device holds after seek(offset) and write(b): the bytes that fit
\* before the end of the device are stored.
Stored(content, offset, b) ==
    [i \in 1..Len(content) |->
        IF i > offset /\ i <= offset + Len(b) THEN b[i - offset] ELSE content[i]]

\* Whether seek(offset), write(b) runs past the end of the device (ENOSPC).
PastEnd(content, offset, b) == offset + Len(b) > Len(content)

\* flash_erase <dev> 0 0: every cell of the partition reads as erased, 0xFF.
Erased(content) == Fill(Len(content), 255)

----------------------------------------------------------------------------
\* The script body, lines 193-283.

Bytes == {0, 1}
\* The candidate files: n bytes of one value.
Candidates == {Fill(n, b) : n \in 0..MaxLen, b \in Bytes}
Offsets == 0..MaxOffset
Sizes == 1..MaxSize

\* --gpio: omitted, or an integer.
GpioArgs == {None, Some(0), Some(1)}

\* Python's truth value of args.gpio: None and 0 are false.
Truthy(gpio) == gpio # None /\ gpio[1] # 0

Event(op, section, val) ==
    [op |-> op, sec |-> section, val |-> val, gpio |-> gpioValue, ro |-> forceRo]

VersionIdle ==
    /\ buf = <<>>
    /\ start = 0
    /\ end = -1
    /\ vpc = "idle"
    /\ result = <<>>

DiscoveryIdle ==
    /\ proc_mtd = <<>>
    /\ slist = <<>>
    /\ partitions = <<>>
    /\ dpc = "idle"

\* Lines 193-238: the arguments are parsed, the backend is constructed and
\* the candidate files are loaded.
Init ==
    /\ \E w \in BOOLEAN, v \in BOOLEAN, g \in GpioArgs,
          spl \in {None} \cup {Some(c) : c \in Candidates},
          uboot \in {None} \cup {Some(c) : c \in Candidates},
          so \in Offsets, uo \in Offsets, t \in flash_types :
        /\ spl # None \/ uboot # None
        /\ args = [flash |-> t, write |-> w, verify |-> v, gpio |-> g,
                   spl |-> spl, uboot |-> uboot, spl_offset |-> so, uboot_offset |-> uo]
        /\ data = [s \in Sections |->
                    CASE s = "spl" /\ spl # None -> create_file_data(spl[1])
                      [] s = "uboot" /\ uboot # None -> create_file_data(uboot[1])
                      [] s = "uboot-second" /\ uboot # None -> create_file_data(uboot[1])
                      [] OTHER -> NoFileData]
        /\ \/ /\ t = "mmc"
              /\ \E sz \in Sizes :
                    /\ media = [d \in Devices |-> IF d = MmcDev THEN Fill(sz, 0) ELSE <<>>]
                    /\ flash = mmc_device(sz, so, uo)
           \/ /\ t = "mtd"
              /\ \E names \in SUBSET Sections, sz \in Sizes, f2 \in Bytes :
                    /\ "uboot-second" \notin names => f2 = 0
                    /\ media = [d \in Devices |->
                                 CASE d = "mtd2" /\ "uboot-second" \in names -> Fill(sz, f2)
                                   [] d = "mtd1" /\ "uboot" \in names -> Fill(sz, 0)
                                   [] d = "mtd0" /\ "spl" \in names -> Fill(sz, 0)
                                   [] OTHER -> <<>>]
                    /\ flash = mtd_device(names, [s \in Sections |-> sz], so, uo)
    /\ media0 = media
    /\ pc = "verify"
    /\ idx = 1
    /\ gpioValue = 1
    /\ forceRo = 1
    /\ exc = FALSE
    /\ log = <<>>
    /\ exitStatus = -1
    /\ VersionIdle
    /\ DiscoveryIdle

\* sys.exit(status), or the interpreter ending on an uncaught exception
\* (status 1).
Exit(status) ==
    /\ pc' = "done"
    /\ exitStatus' = status

Cur == SectionOrder[idx]

\* Line 242: the section has no candidate.
VerifySkip ==
    /\ pc = "verify" /\ idx <= 3
    /\ ~data[Cur].present
    /\ idx' = idx + 1
    /\ UNCHANGED <<args, flash, media, data, pc, gpioValue, forceRo, exc, log, exitStatus>>
    /\ UNCHANGED <<media0, versionVars, discoveryVars>>

\* Lines 243-245: the backend has no such section.  (The message's f-string
\* names an undefined variable; either way the status is 1.)
VerifyNoSection ==
    /\ pc = "verify" /\ idx <= 3
    /\ data[Cur].present
    /\ ~has_section(flash, Cur)
    /\ Exit(1)
    /\ UNCHANGED <<args, flash, media, data, idx, gpioValue, forceRo, exc, log>>
    /\ UNCHANGED <<media0, versionVars, discoveryVars>>

\* VerifyTooLarge with the exit forgotten: the oversized candidate is reported
\* and the loop goes on, the section marked for flashing.
VerifyTooLarge_NoExit ==
    /\ pc = "verify" /\ idx <= 3
    /\ data[Cur].present
    /\ has_section(flash, Cur)
    /\ data[Cur].size > size(flash, Cur)
    /\ data' = [data EXCEPT ![Cur].need_to_flash = TRUE]
    /\ idx' = idx + 1
    /\ UNCHANGED <<args, flash, media, pc, gpioValue, forceRo, exc, log, exitStatus>>
    /\ UNCHANGED <<media0, versionVars, discoveryVars>>

\* Lines 247-249: the candidate is larger than the section.
VerifyTooLarge ==
    /\ pc = "verify" /\ idx <= 3
    /\ data[Cur].present
    /\ has_section(flash, Cur)
    /\ data[Cur].size > size(flash, Cur)
    /\ Exit(1)
    /\ UNCHANGED <<args, flash, media, data, idx, gpioValue, forceRo, exc, log>>
    /\ UNCHANGED <<media0, versionVars, discoveryVars>>

\* Line 251, get_buf's open() raising: the device cannot be read.
VerifyReadError ==
    /\ pc = "verify" /\ idx <= 3
    /\ data[Cur].present
    /\ has_section(flash, Cur)
    /\ data[Cur].size <= size(flash, Cur)
    /\ log' = Append(log, Event("read_error", Cur, 0))
    /\ Exit(1)
    /\ UNCHANGED <<args, flash, media, data, idx, gpioValue, forceRo, exc>>
    /\ UNCHANGED <<media0, versionVars, discoveryVars>>

\* Lines 251-257: read the section over the candidate's length and compare
\* the digests.
VerifyCompare ==
    /\ pc = "verify" /\ idx <= 3
    /\ data[Cur].present
    /\ has_section(flash, Cur)
    /\ data[Cur].size <= size(flash, Cur)
    /\ LET flash_section_md5 == get_md5(read(flash, media, Cur, data[Cur].size))
       IN  data' = [data EXCEPT ![Cur].need_to_flash = (data[Cur].md5 # flash_section_md5)]
    /\ log' = Append(log, Event("read", Cur, 0))
    /\ idx' = idx + 1
    /\ UNCHANGED <<args, flash, media, pc, gpioValue, forceRo, exc, exitStatus>>
    /\ UNCHANGED <<media0, versionVars, discoveryVars>>

AnyNeedToFlash == \E s \in Sections : data[s].present /\ data[s].need_to_flash

\* Lines 258-264: --verify.
VerifyOnlyExit ==
    /\ pc = "verify" /\ idx = 4
    /\ args.verify
    /\ Exit(IF AnyNeedToFlash THEN 1 ELSE 0)
    /\ UNCHANGED <<args, flash, media, data, idx, gpioValue, forceRo, exc, log>>
    /\ UNCHANGED <<media0, versionVars, discoveryVars>>

\* Lines 267, 283: without --write the script ends here.
NoWriteExit ==
    /\ pc = "verify" /\ idx = 4
    /\ ~args.verify
    /\ ~args.write
    /\ Exit(0)
    /\ UNCHANGED <<args, flash, media, data, idx, gpioValue, forceRo, exc, log>>
    /\ UNCHANGED <<media0, versionVars, discoveryVars>>

\* WriteLoopEnter with the test of line 258 lost: --verify does not keep the
\* script from the write loop.
WriteLoopEnter_DespiteVerify ==
    /\ pc = "verify" /\ idx = 4
    /\ args.write
    /\ pc' = "write"
    /\ idx' = 1
    /\ UNCHANGED <<args, flash, media, data, gpioValue, forceRo, exc, log, exitStatus>>
    /\ UNCHANGED <<media0, versionVars, discoveryVars>>

\* Lines 267-268: enter the write loop.
WriteLoopEnter ==
    /\ pc = "verify" /\ idx = 4
    /\ ~args.verify
    /\ args.write
    /\ pc' = "write"
    /\ idx' = 1
    /\ UNCHANGED <<args, flash, media, data, gpioValue, forceRo, exc, log, exitStatus>>
    /\ UNCHANGED <<media0, versionVars, discoveryVars>>

\* NeedsFlash with the need_to_flash test dropped.
NeedsFlash_AnyCandidate(section) == data[section].present

\* Lines 262, 270: "'need_to_flash' in data[section] and data[section]['need_to_flash']".
NeedsFlash(section) == data[section].present /\ data[section].need_to_flash

\* Lines 269-270: nothing to do for this section.
WriteSkip ==
    /\ pc = "write" /\ idx <= 3
    /\ ~NeedsFlash(Cur)
    /\ idx' = idx + 1
    /\ UNCHANGED <<args, flash, media, data, pc, gpioValue, forceRo, exc, log, exitStatus>>
    /\ UNCHANGED <<media0, versionVars, discoveryVars>>

\* set_gpio(gpio, state): writes str(int(state)) to the line's value file.
set_gpio(state) == IF state THEN 1 ELSE 0

\* Lines 271-274: "if args.gpio: set_gpio(args.gpio, False)", enable write.
FlashBegin ==
    /\ pc = "write" /\ idx <= 3
    /\ NeedsFlash(Cur)
    /\ IF Truthy(args.gpio)
       THEN /\ gpioValue' = set_gpio(FALSE)
            /\ log' = Append(log, Event("gpio", Cur, set_gpio(FALSE)))
       ELSE UNCHANGED <<gpioValue, log>>
    /\ pc' = "erase"
    /\ UNCHANGED <<args, flash, media, data, idx, forceRo, exc, exitStatus>>
    /\ UNCHANGED <<media0, versionVars, discoveryVars>>

\* Line 276, erase_section.  mmc_device: pass.  mtd_device: flash_erase on the
\* partition's device; check=True raises when it exits non-zero.
EraseOk ==
    /\ pc = "erase"
    /\ media' = IF flash.type = "mtd"
                THEN [media EXCEPT ![SectionOf(flash, Cur).dev] = Erased(@)]
                ELSE media
    /\ log' = Append(log, Event("erase", Cur, 0))
    /\ pc' = "wr"
    /\ UNCHANGED <<args, flash, data, idx, gpioValue, forceRo, exc, exitStatus>>
    /\ UNCHANGED <<media0, versionVars, discoveryVars>>

EraseFails ==
    /\ pc = "erase"
    /\ flash.type = "mtd"
    /\ log' = Append(log, Event("erase", Cur, 1))
    /\ exc' = TRUE
    /\ pc' = "finally"
    /\ UNCHANGED <<args, flash, media, data, idx, gpioValue, forceRo, exitStatus>>
    /\ UNCHANGED <<media0, versionVars, discoveryVars>>

\* The events of one write call.  mmc_device.write wraps the write in
\* _force_ro('0') ... finally _force_ro('1'); mtd_device.write does not.
WriteEvents(failed) ==
    IF flash.type = "mmc"
    THEN << [op |-> "force_ro", sec |-> Cur, val |-> 0, gpio |-> gpioValue, ro |-> forceRo],
            [op |-> "write", sec |-> Cur, val |-> failed, gpio |-> gpioValue, ro |-> 0],
            [op |-> "force_ro", sec |-> Cur, val |-> 1, gpio |-> gpioValue, ro |-> 0] >>
    ELSE << Event("write", Cur, failed) >>

\* Line 277, write: the whole buffer is stored at the section's offset.
WriteOk ==
    /\ pc = "wr"
    /\ LET sec == SectionOf(flash, Cur)
       IN  /\ ~PastEnd(media[sec.dev], sec.offset, data[Cur].buf)
           /\ media' = [media EXCEPT ![sec.dev] = Stored(@, sec.offset, data[Cur].buf)]
    /\ log' = log \o WriteEvents(0)
    /\ forceRo' = IF flash.type = "mmc" THEN 1 ELSE forceRo
    /\ pc' = "finally"
    /\ UNCHANGED <<args, flash, data, idx, gpioValue, exc, exitStatus>>
    /\ UNCHANGED <<media0, versionVars, discoveryVars>>

\* WriteFails with the finally clause of lines 77-78 lost: after a failed
\* write the force-read-only control stays writable.
WriteFails_RoLeftWritable ==
    /\ pc = "wr"
    /\ LET sec == SectionOf(flash, Cur)
       IN  \E k \in 0..Len(data[Cur].buf) :
              /\ k = Len(data[Cur].buf) => PastEnd(media[sec.dev], sec.offset, data[Cur].buf)
              /\ media' = [media EXCEPT ![sec.dev] =
                              Stored(@, sec.offset, SubSeq(data[Cur].buf, 1, k))]
    /\ log' = log \o SubSeq(WriteEvents(1), 1, IF flash.type = "mmc" THEN 2 ELSE 1)
    /\ forceRo' = IF flash.type = "mmc" THEN 0 ELSE forceRo
    /\ exc' = TRUE
    /\ pc' = "finally"
    /\ UNCHANGED <<args, flash, data, idx, gpioValue, exitStatus>>
    /\ UNCHANGED <<media0, versionVars, discoveryVars>>

\* Line 277, write raising OSError: an I/O error after k bytes, or the end
\* of the device reached (ENOSPC); what was stored before stays stored.
WriteFails ==
    /\ pc = "wr"
    /\ LET sec == SectionOf(flash, Cur)
       IN  \E k \in 0..Len(data[Cur].buf) :
              /\ k = Len(data[Cur].buf) => PastEnd(media[sec.dev], sec.offset, data[Cur].buf)
              /\ media' = [media EXCEPT ![sec.dev] =
                              Stored(@, sec.offset, SubSeq(data[Cur].buf, 1, k))]
    /\ log' = log \o WriteEvents(1)
    /\ forceRo' = IF flash.type = "mmc" THEN 1 ELSE forceRo
    /\ exc' = TRUE
    /\ pc' = "finally"
    /\ UNCHANGED <<args, flash, data, idx, gpioValue, exitStatus>>
    /\ UNCHANGED <<media0, versionVars, discoveryVars>>

\* Line 71, _force_ro('0') raising (lines 55-56): the control file cannot be
\* opened or written.  The call is made before the try block of line 72:
\* nothing is written and the control is left as it was.
WriteForceRoFails ==
    /\ pc = "wr"
    /\ flash.type = "mmc"
    /\ log' = Append(log, Event("force_ro_error", Cur, 0))
    /\ exc' = TRUE
    /\ pc' = "finally"
    /\ UNCHANGED <<args, flash, media, data, idx, gpioValue, forceRo, exitStatus>>
    /\ UNCHANGED <<media0, versionVars, discoveryVars>>

\* Lines 278-281: "finally: if args.gpio: set_gpio(args.gpio, True)", disable
\* write; then the exception, if any, ends the process with status 1,
\* otherwise the loop goes on.
Finally ==
    /\ pc = "finally"
    /\ IF Truthy(args.gpio)
       THEN /\ gpioValue' = set_gpio(TRUE)
            /\ log' = Append(log, Event("gpio", Cur, set_gpio(TRUE)))
       ELSE UNCHANGED <<gpioValue, log>>
    /\ IF exc
       THEN Exit(1) /\ UNCHANGED idx
       ELSE pc' = "write" /\ idx' = idx + 1 /\ UNCHANGED exitStatus
    /\ UNCHANGED <<args, flash, media, data, forceRo, exc>>
    /\ UNCHANGED <<media0, versionVars, discoveryVars>>

\* Line 283.
WriteLoopExit ==
    /\ pc = "write" /\ idx = 4
    /\ Exit(0)
    /\ UNCHANGED <<args, flash, media, data, idx, gpioValue, forceRo, exc, log>>
    /\ UNCHANGED <<media0, versionVars, discoveryVars>>

Next ==
    \/ VerifySkip
    \/ VerifyNoSection
    \/ VerifyTooLarge
    \/ VerifyReadError
    \/ VerifyCompare
    \/ VerifyOnlyExit
    \/ NoWriteExit
    \/ WriteLoopEnter
    \/ WriteSkip
    \/ FlashBegin
    \/ EraseOk
    \/ EraseFails
    \/ WriteOk
    \/ WriteFails
    \/ WriteForceRoFails
    \/ Finally
    \/ WriteLoopExit

Spec == Init /\ [][Next]_vars

\* The ends of earlier invocations, as the log records them.
RunEndPos == {i \in DOMAIN log : log[i].op = "run_end"}

\* The script is invoked again with the same command line after a --verify
\* run has ended (lines 193-238 once more): the candidates are loaded afresh
\* from the same files, the backend is constructed as before, and the devices
\* and guards are as the first run left them.  The log keeps the first run's
\* exit status and per-section decisions.
Rerun ==
    /\ pc = "done"
    /\ args.verify
    /\ RunEndPos = {}
    /\ log' = Append(log, Event("run_end", "all",
                  [status |-> exitStatus,
                   need_to_flash |-> [s \in Sections |-> data[s].need_to_flash]]))
    /\ data' = [s \in Sections |-> [data[s] EXCEPT !.need_to_flash = FALSE]]
    /\ pc' = "verify"
    /\ idx' = 1
    /\ exc' = FALSE
    /\ exitStatus' = -1
    /\ UNCHANGED <<args, flash, media, gpioValue, forceRo>>
    /\ UNCHANGED <<media0, versionVars, discoveryVars>>

TwiceNext ==
    \/ Next
    \/ Rerun

\* One invocation, or a --verify invocation followed by a second one.
TwiceSpec == Init /\ [][TwiceNext]_vars


----------------------------------------------------------------------------
\* Properties of the update engine.

Supplied == {s \in {"spl", "uboot"} : args[s] # None}
Candidate(s) == args[s][1]

\* Positions of the log holding a call on the medium or on a guard.
ErasePos(s) == {i \in DOMAIN log : log[i].op = "erase" /\ log[i].sec = s}
WritePos(s) == {i \in DOMAIN log : log[i].op = "write" /\ log[i].sec = s}
ReadPos(s) == {i \in DOMAIN log : log[i].op = "read" /\ log[i].sec = s}
GpioPos(s, v) == {i \in DOMAIN log : log[i].op = "gpio" /\ log[i].sec = s /\ log[i].val = v}
MutationOps == {"erase", "write", "gpio", "force_ro"}
MediumErrorPos == {i \in DOMAIN log : log[i].op \in {"erase", "write"} /\ log[i].val = 1}
ReadErrorPos == {i \in DOMAIN log : log[i].op = "read_error"}

\* The section's flash digest, over the candidate's length, differs from the
\* candidate's digest when the script starts.
DiffersAtStart(s) ==
    /\ data[s].present
    /\ has_section(flash, s)
    /\ get_md5(read(flash, media0, s, data[s].size)) # data[s].md5

WriteMode == args.write /\ ~args.verify

\* C1: with --gpio given, every erase and write call is made while the line is
\* write-enabled (value 0), every flashed section has exactly one
\* write-disable after its calls, and at process end the line is
\* write-disabled (value 1).
C1_GpioGuardsEveryFlash ==
    args.gpio # None =>
        /\ \A i \in DOMAIN log : log[i].op \in {"erase", "write"} => log[i].gpio = 0
        /\ pc = "done" =>
              /\ gpioValue = 1
              /\ \A s \in Sections : ErasePos(s) # {} =>
                    /\ Cardinality(GpioPos(s, 1)) = 1
                    /\ \A i \in ErasePos(s) \cup WritePos(s) : \A j \in GpioPos(s, 1) : i < j

\* C2: at exit status 0 in write mode, every section that was written has been
\* read again after its write, and what it holds over the candidate's length
\* has the candidate's digest.
C2_UpdatedOnlyAfterReread ==
    (pc = "done" /\ exitStatus = 0 /\ WriteMode) =>
        \A s \in Sections : WritePos(s) # {} =>
            /\ \E r \in ReadPos(s) : \A w \in WritePos(s) : w < r
            /\ get_md5(read(flash, media, s, data[s].size)) = data[s].md5

\* C3: when an erase or a write has failed, the process ends with a non-zero
\* status and every section that needs flashing has had its erase attempted.
C3_FailureIsPerSection ==
    (pc = "done" /\ MediumErrorPos # {}) =>
        /\ exitStatus # 0
        /\ \A s \in Sections : NeedsFlash(s) => ErasePos(s) # {}

\* C4: in write mode, when every supplied candidate has its section in the
\* backend and fits it and no call on the medium fails, every supplied
\* candidate has been compared and, where its digest differed, its section has
\* been erased and written and holds the candidate.
C4_EverySuppliedCandidateProcessed ==
    ( /\ pc = "done"
      /\ WriteMode
      /\ \A s \in Supplied : has_section(flash, s) /\ data[s].size <= size(flash, s)
      /\ MediumErrorPos = {} /\ ReadErrorPos = {} ) =>
        \A s \in Supplied :
            /\ ReadPos(s) # {}
            /\ DiffersAtStart(s) =>
                  /\ ErasePos(s) # {} /\ WritePos(s) # {}
                  /\ read(flash, media, s, data[s].size) = Candidate(s)

Oversized ==
    \E s \in Sections :
        /\ data[s].present
        /\ has_section(flash, s)
        /\ data[s].size > size(flash, s)

NoMutation ==
    /\ media = media0
    /\ gpioValue = 1
    /\ forceRo = 1
    /\ \A i \in DOMAIN log : log[i].op \notin MutationOps

\* C5: when a candidate is larger than size(section) of its section, no erase,
\* write or guard toggle is ever made, the script never enters the write loop,
\* and the process ends with status 1.
C5_OversizedExitsBeforeAnyWrite ==
    Oversized =>
        /\ NoMutation
        /\ pc \in {"verify", "done"}
        /\ pc = "done" => exitStatus = 1

\* C5's case: the run has ended on an oversized uboot candidate, in write
\* mode with a GPIO guard, after spl compared as needing a flash.
C5_Witness ==
    /\ pc = "done" /\ exitStatus = 1
    /\ WriteMode /\ Truthy(args.gpio)
    /\ data["spl"].present /\ data["spl"].need_to_flash
    /\ data["uboot"].present /\ has_section(flash, "uboot")
    /\ data["uboot"].size > size(flash, "uboot")

\* C6: an erase, a write or a guard toggle is made for a section only in write
\* mode and only when the section's digest differed from the candidate's;
\* with --verify or without --write the devices and the guards are as at the
\* start; and a section whose digest matched holds what it held.
C6_MutationOnlyOnRequest ==
    /\ \A i \in DOMAIN log : log[i].op \in MutationOps =>
          WriteMode /\ DiffersAtStart(log[i].sec)
    /\ ~WriteMode => NoMutation
    /\ \A s \in Sections :
          (data[s].present /\ has_section(flash, s) /\ ~DiffersAtStart(s)) =>
              /\ read(flash, media, s, data[s].size) = read(flash, media0, s, data[s].size)
              /\ flash.type = "mtd" => media[SectionOf(flash, s).dev] = media0[SectionOf(flash, s).dev]

\* C6's case: a write-mode run has ended having flashed uboot-second and
\* left the matching spl and uboot alone.
C6_Witness ==
    /\ pc = "done" /\ exitStatus = 0 /\ WriteMode
    /\ WritePos("uboot-second") # {}
    /\ data["spl"].present /\ ~DiffersAtStart("spl") /\ data["spl"].size > 0
    /\ data["uboot"].present /\ ~DiffersAtStart("uboot")
    /\ ErasePos("spl") = {} /\ ErasePos("uboot") = {}

MatchesAtStart(s) ==
    /\ has_section(flash, s)
    /\ get_md5(read(flash, media0, s, data[s].size)) = data[s].md5

\* C7: in verify-only mode, unless a device could not be read, the exit
\* status is 0 exactly when every supplied candidate's digest equals the
\* digest of its section's content (the uboot candidate's sections being
\* uboot and, where the backend has it, uboot-second).
C7_VerifyExitIffAllMatch ==
    (pc = "done" /\ args.verify /\ ReadErrorPos = {}) =>
        ( exitStatus = 0 <=>
            /\ args.spl # None => MatchesAtStart("spl")
            /\ args.uboot # None =>
                  /\ MatchesAtStart("uboot")
                  /\ has_section(flash, "uboot-second") => MatchesAtStart("uboot-second") )

\* The size of the medium behind a section: the device (MMC) or the
\* partition (MTD), as the device node holds it.
MediumSize(s) == Len(media0[SectionOf(flash, s).dev])

\* A candidate that has passed the checks of lines 243-249.
PassesSizeCheck(s) ==
    /\ data[s].present
    /\ has_section(flash, s)
    /\ data[s].size <= size(flash, s)

\* C11: for every candidate that passes the size check, offset + length is at
\* most the size of the medium, and a section whose offset lies beyond the
\* medium has no positive usable size.
C11_WindowWithinMedium ==
    \A s \in Sections :
        /\ PassesSizeCheck(s) =>
              SectionOf(flash, s).offset + data[s].size <= MediumSize(s)
        /\ (has_section(flash, s) /\ SectionOf(flash, s).offset > MediumSize(s)) =>
              size(flash, s) <= 0

\* C12: on the MMC backend every write is made with the force-read-only
\* control at 0, directly after the call that set it to 0 and directly before
\* the call that sets it back to 1, whether the write succeeds or fails and
\* with or without a GPIO guard; the control is toggled for nothing else; with
\* the GPIO guard applied the toggles and the write fall inside the GPIO
\* write-enabled window; and once a write call has returned or raised the
\* device is read-only.
C12_ForceRoBracketsMmcWrite ==
    flash.type = "mmc" =>
        /\ \A i \in DOMAIN log : log[i].op = "write" =>
              /\ log[i].ro = 0
              /\ i - 1 \in DOMAIN log /\ i + 1 \in DOMAIN log
              /\ log[i - 1].op = "force_ro" /\ log[i - 1].val = 0 /\ log[i - 1].sec = log[i].sec
              /\ log[i + 1].op = "force_ro" /\ log[i + 1].val = 1 /\ log[i + 1].sec = log[i].sec
        /\ \A i \in DOMAIN log : log[i].op = "force_ro" =>
              IF log[i].val = 0
              THEN i + 1 \in DOMAIN log /\ log[i + 1].op = "write"
              ELSE i - 1 \in DOMAIN log /\ log[i - 1].op = "write"
        /\ Truthy(args.gpio) =>
              \A i \in DOMAIN log : log[i].op \in {"force_ro", "write"} => log[i].gpio = 0
        /\ pc \in {"finally", "write", "done"} => forceRo = 1

\* C12's case: an MMC run with a GPIO guard has ended after a write that
\* failed part-way; the control was set back and the device is read-only.
C12_Witness ==
    /\ flash.type = "mmc"
    /\ pc = "done" /\ exitStatus = 1
    /\ Truthy(args.gpio)
    /\ \E i \in DOMAIN log : log[i].op = "write" /\ log[i].val = 1
    /\ media # media0
    /\ forceRo = 1

\* The sections on which erase_section has been called.
Flashed == {s \in Sections : ErasePos(s) # {}}

\* C13: the GPIO guard is applied exactly when --gpio is given, whatever the
\* number: without --gpio the line is never driven; with --gpio every erase
\* and write is made with the line write-enabled, and every section whose
\* flashing has ended had the line driven write-enabled before its erase and
\* write-disabled after its last call.
C13_GuardAppliedIffSupplied ==
    /\ args.gpio = None => \A i \in DOMAIN log : log[i].op # "gpio"
    /\ args.gpio # None =>
          /\ \A i \in DOMAIN log : log[i].op \in {"erase", "write"} =>
                /\ log[i].gpio = 0
                /\ \E j \in GpioPos(log[i].sec, 0) : j < i
          /\ \A s \in Flashed : pc \in {"write", "done"} =>
                \E j \in GpioPos(s, 1) : \A i \in ErasePos(s) \cup WritePos(s) : i < j

\* The place of a section in the order spl, uboot, uboot-second.
Rank(s) ==
    CASE s = "spl" -> 1
      [] s = "uboot" -> 2
      [] s = "uboot-second" -> 3

CompareOps == {"read", "read_error"}
FlashOps == {"gpio", "erase", "force_ro", "force_ro_error", "write"}

\* The events of the comparison phase and of the write phase, in log order.
PhaseEvents == {i \in DOMAIN log : log[i].op \in CompareOps \cup FlashOps}

\* Where an event stands: the comparison phase first, section by section,
\* then the write phase, section by section.
Stage(i) == IF log[i].op \in CompareOps THEN Rank(log[i].sec) ELSE 3 + Rank(log[i].sec)

\* C14: the calls are made in the order spl, uboot, uboot-second, all of the
\* comparison phase before any of the write phase; no section is compared
\* twice or after a later one; and when the erase of a section starts, every
\* earlier section that needs flashing has been erased and written
\* successfully.
C14_SectionsInFixedOrder ==
    /\ PhaseEvents = DOMAIN log
    /\ \A i \in DOMAIN log : i + 1 \in DOMAIN log =>
          /\ Stage(i) <= Stage(i + 1)
          /\ log[i].op \in CompareOps => Stage(i) < Stage(i + 1)
    /\ \A t \in Sections : ReadPos(t) # {} =>
          \A s \in Sections : (Rank(s) < Rank(t) /\ data[s].present) => ReadPos(s) # {}
    /\ \A t \in Sections : ErasePos(t) # {} =>
          \A s \in Sections : (Rank(s) < Rank(t) /\ NeedsFlash(s)) =>
              /\ ErasePos(s) # {}
              /\ \E w \in WritePos(s) : log[w].val = 0
    /\ pc \in {"erase", "wr", "finally"} =>
          \A i \in DOMAIN log : log[i].op \in FlashOps => Rank(log[i].sec) <= Rank(Cur)

\* C14's case: a write-mode run on MTD has ended having erased and written
\* spl, uboot and uboot-second.
C14_Witness ==
    /\ pc = "done" /\ exitStatus = 0
    /\ flash.type = "mtd"
    /\ \A s \in Sections : ErasePos(s) # {} /\ WritePos(s) # {} /\ ReadPos(s) # {}

\* The last write call made for a section.
LastWrite(s) == CHOOSE w \in WritePos(s) : \A v \in WritePos(s) : v <= w

\* C15: when the write of a candidate to a section has succeeded, reading the
\* candidate's length from the section returns that many bytes with the
\* candidate's digest, on both backends, at every offset; on MTD the
\* partition was erased before the write.
C15_WriteThenReadRoundTrip ==
    (pc = "finally" /\ ~exc) =>
        /\ WritePos(Cur) # {}
        /\ log[LastWrite(Cur)].val = 0
        /\ Len(read(flash, media, Cur, data[Cur].size)) = data[Cur].size
        /\ get_md5(read(flash, media, Cur, data[Cur].size)) = data[Cur].md5
        /\ flash.type = "mtd" => \E e \in ErasePos(Cur) : e < LastWrite(Cur) /\ log[e].val = 0

\* C15's case: on MTD a non-empty candidate has just been written at a
\* non-zero offset into an erased partition that held other bytes.
C15_Witness ==
    /\ pc = "finally" /\ ~exc
    /\ flash.type = "mtd"
    /\ SectionOf(flash, Cur).offset > 0
    /\ data[Cur].size > 0
    /\ read(flash, media, Cur, data[Cur].size) # read(flash, media0, Cur, data[Cur].size)
    /\ media[SectionOf(flash, Cur).dev][1] = 255

\* The run under way or ended has met no unreadable device.
NoReadErrorSince(i) == \A j \in DOMAIN log : j > i => log[j].op # "read_error"

\* C16: a --verify run leaves the devices, the guards and the section table
\* as they were, and a second --verify run with the same candidates, when
\* neither run met an unreadable device, ends with the exit status and the
\* per-section decisions of the first.
C16_VerifyOnlyIdempotent ==
    args.verify =>
        /\ media = media0
        /\ gpioValue = 1
        /\ forceRo = 1
        /\ \A i \in DOMAIN log : log[i].op \notin MutationOps
        /\ \A i \in RunEndPos :
              (pc = "done" /\ ReadErrorPos = {}) =>
                  /\ exitStatus = log[i].val.status
                  /\ \A s \in Sections : data[s].need_to_flash = log[i].val.need_to_flash[s]

\* C16's case: two --verify runs have ended, both with status 1, spl matching
\* and uboot-second needing a flash both times.
C16_Witness ==
    /\ args.verify /\ args.write
    /\ pc = "done" /\ exitStatus = 1
    /\ RunEndPos # {} /\ ReadErrorPos = {}
    /\ Cardinality(ReadPos("spl")) = 2 /\ Cardinality(ReadPos("uboot-second")) = 2
    /\ data["spl"].present /\ ~data["spl"].need_to_flash
    /\ data["uboot-second"].need_to_flash

\* C19: every read made by the compare loop returns as many bytes as were
\* asked for, the candidate's length; a read asking for more than the medium
\* holds from the section's offset does not return.
C19_ReadNeverShort ==
    \A s \in Sections : ReadPos(s) # {} =>
        /\ SectionOf(flash, s).offset + data[s].size <= MediumSize(s)
        /\ Len(read(flash, media0, s, data[s].size)) = data[s].size

Mirrored == {"uboot", "uboot-second"}

\* C20: the uboot candidate is the candidate of uboot and of uboot-second and
\* of nothing else; on MTD both sections have the same offset; and after a
\* write-mode run on an MTD backend with both partitions that ended with
\* status 0, both sections hold the candidate over its length, each copy
\* that differed was erased and written, and each copy that matched was
\* neither erased nor written and its partition is as it was.
C20_SecondMirrorsUboot ==
    /\ \A s \in Mirrored :
          IF args.uboot # None
          THEN data[s].present /\ data[s].buf = Candidate("uboot")
          ELSE ~data[s].present
    /\ (flash.type = "mtd" /\ \A s \in Mirrored : has_section(flash, s)) =>
          /\ SectionOf(flash, "uboot").offset = SectionOf(flash, "uboot-second").offset
          /\ (args.uboot # None /\ WriteMode /\ pc = "done" /\ exitStatus = 0) =>
                \A s \in Mirrored :
                    /\ read(flash, media, s, data[s].size) = Candidate("uboot")
                    /\ IF DiffersAtStart(s)
                       THEN ErasePos(s) # {} /\ \E w \in WritePos(s) : log[w].val = 0
                       ELSE /\ ErasePos(s) = {} /\ WritePos(s) = {}
                            /\ media[SectionOf(flash, s).dev] = media0[SectionOf(flash, s).dev]

\* C20's case: a write-mode run on MTD has ended with status 0; uboot
\* differed and was rewritten, uboot-second already held the candidate and
\* was left alone.
C20_Witness ==
    /\ flash.type = "mtd"
    /\ pc = "done" /\ exitStatus = 0 /\ WriteMode
    /\ args.uboot # None /\ Len(Candidate("uboot")) > 0
    /\ has_section(flash, "uboot") /\ has_section(flash, "uboot-second")
    /\ DiffersAtStart("uboot") /\ WritePos("uboot") # {}
    /\ ~DiffersAtStart("uboot-second") /\ WritePos("uboot-second") = {}
    /\ read(flash, media, "uboot", data["uboot"].size) = read(flash, media, "uboot-second", data["uboot"].size)

----------------------------------------------------------------------------
\* parse_version, lines 130-147.

max_length == 1024
min_length == 15

\* 'UNAVAILABLE'
not_found == <<85, 78, 65, 86, 65, 73, 76, 65, 66, 76, 69>>

\* str.encode('U-Boot')
version_token == <<85, 45, 66, 111, 111, 116>>

NUL == 0
Newline == 10

\* bytes.index(sub, from): the lowest 0-based position at or after from where
\* sub occurs in b; -1 stands for the ValueError raised when there is none.
index(b, sub, from) ==
    LET hits == {i \in Max(from, 0)..(Len(b) - Len(sub)) :
                    \A k \in 1..Len(sub) : b[i + k] = sub[k]}
    IN  IF hits = {} THEN -1 ELSE CHOOSE i \in hits : \A j \in hits : i <= j

\* b[from:to]
Slice(b, from, to) == SubSeq(b, from + 1, to)

\* bytes.decode(): UTF-8.  A byte below 128 is the code point of that value.
\* The buffers drawn hold, besides such bytes, only the byte 255, which
\* occurs in no UTF-8 sequence: a span holding it raises UnicodeDecodeError.
Decodes(span) == {i \in 1..Len(span) : span[i] >= 128} = {}
decode(span) == [i \in 1..Len(span) |-> span[i]]

\* str.strip('\n'): leading and trailing newlines removed.
strip(t) ==
    IF {i \in 1..Len(t) : t[i] # Newline} = {} THEN <<>>
    ELSE SubSeq(t,
            CHOOSE i \in 1..Len(t) : t[i] # Newline /\ \A j \in 1..(i - 1) : t[j] = Newline,
            CHOOSE i \in 1..Len(t) : t[i] # Newline /\ \A j \in (i + 1)..Len(t) : t[j] = Newline)

\* Line 140 with the comparisons one off.
InRange_OffByOne(s, e) == (e - s) < max_length /\ (e - s) >= min_length

\* Line 140.
InRange(s, e) == (e - s) <= max_length /\ (e - s) > min_length

\* Line 138: where the iteration looks for the marker, and line 139: where
\* it then looks for the NUL (-1: line 138 or 139 raised).
NextStart == index(buf, version_token, end + 1)
NulAfter(s) == IF s = -1 THEN -1 ELSE index(buf, <<NUL>>, s + 1)
NextEnd == NulAfter(NextStart)

EngineIdle ==
    /\ args = <<>>
    /\ flash = <<>>
    /\ media = <<>>
    /\ media0 = <<>>
    /\ data = <<>>
    /\ pc = "idle"
    /\ idx = 0
    /\ gpioValue = 1
    /\ forceRo = 1
    /\ exc = FALSE
    /\ log = <<>>
    /\ exitStatus = -1

\* Line 138 raising: no marker at or after end + 1.
ScanNoMarker ==
    /\ vpc = "loop"
    /\ NextStart = -1
    /\ result' = not_found
    /\ vpc' = "done"
    /\ UNCHANGED <<buf, start, end, engineVars, discoveryVars>>

\* Line 139 raising: no NUL after the marker.
ScanNoNul ==
    /\ vpc = "loop"
    /\ \E s \in {NextStart} : \E e \in {NulAfter(s)} :
          /\ s # -1
          /\ e = -1
          /\ start' = s
    /\ result' = not_found
    /\ vpc' = "done"
    /\ UNCHANGED <<buf, end, engineVars, discoveryVars>>

\* ScanOutOfRange with the assignment to end lost.
ScanOutOfRange_EndKept ==
    /\ vpc = "loop"
    /\ \E s \in {NextStart} : \E e \in {NulAfter(s)} :
          /\ s # -1
          /\ e # -1
          /\ ~InRange(s, e)
          /\ start' = s
    /\ UNCHANGED <<buf, end, vpc, result, engineVars, discoveryVars>>

\* Line 140 false: the span is too short or too long; next iteration.
ScanOutOfRange ==
    /\ vpc = "loop"
    /\ \E s \in {NextStart} : \E e \in {NulAfter(s)} :
          /\ s # -1
          /\ e # -1
          /\ ~InRange(s, e)
          /\ start' = s
          /\ end' = e
    /\ UNCHANGED <<buf, vpc, result, engineVars, discoveryVars>>

\* Line 142: the span decodes and is returned.
ScanReturn ==
    /\ vpc = "loop"
    /\ \E s \in {NextStart} : \E e \in {NulAfter(s)} :
          /\ s # -1
          /\ e # -1
          /\ InRange(s, e)
          /\ \E span \in {Slice(buf, s, e)} :
                /\ Decodes(span)
                /\ result' = strip(decode(span))
          /\ start' = s
          /\ end' = e
    /\ vpc' = "done"
    /\ UNCHANGED <<buf, engineVars, discoveryVars>>

\* Lines 143-144: decode raised and a marker follows the NUL; next iteration.
ScanDecodeFailsNext ==
    /\ vpc = "loop"
    /\ \E s \in {NextStart} : \E e \in {NulAfter(s)} :
          /\ s # -1
          /\ e # -1
          /\ InRange(s, e)
          /\ \E span \in {Slice(buf, s, e)} : ~Decodes(span)
          /\ \E s2 \in {index(buf, version_token, e + 1)} :
                /\ s2 # -1
                /\ start' = s2
          /\ end' = e
    /\ UNCHANGED <<buf, vpc, result, engineVars, discoveryVars>>

\* Lines 143-146: decode raised and line 144 raises in turn, inside the outer
\* try: caught at line 145.
ScanDecodeFailsLast ==
    /\ vpc = "loop"
    /\ \E s \in {NextStart} : \E e \in {NulAfter(s)} :
          /\ s # -1
          /\ e # -1
          /\ InRange(s, e)
          /\ \E span \in {Slice(buf, s, e)} : ~Decodes(span)
          /\ index(buf, version_token, e + 1) = -1
          /\ start' = s
          /\ end' = e
    /\ result' = not_found
    /\ vpc' = "done"
    /\ UNCHANGED <<buf, engineVars, discoveryVars>>

\* Bound of the buffers drawn: how many segments a buffer is made of.
MaxSegs == 2

\* The bytes a span's body is drawn from: the letter 'a', and 0xFF for a body
\* that does not decode.
BodyByte == [letter |-> 97, bad |-> 255]

\* Marker, body and NUL: a span of length L from the marker's start to the NUL.
SpanPlain(L) == version_token \o Fill(L - Len(version_token), BodyByte.letter) \o <<NUL>>
SpanNewline(L) == version_token \o Fill(L - Len(version_token) - 1, BodyByte.letter) \o <<Newline, NUL>>
SpanBad(L) == version_token \o Fill(L - Len(version_token) - 1, BodyByte.letter) \o <<BodyByte.bad, NUL>>
\* Marker and body with no NUL.
Open(n) == version_token \o Fill(n, BodyByte.letter)

Segments ==
    {SpanPlain(L) : L \in {min_length, min_length + 1, max_length, max_length + 1}}
    \cup {SpanNewline(min_length + 1), SpanBad(min_length + 1)}
    \cup {Open(0), Open(max_length)}
    \cup {<<NUL>>, <<BodyByte.letter>>}

RECURSIVE Concat(_)
Concat(ss) == IF ss = <<>> THEN <<>> ELSE Head(ss) \o Concat(Tail(ss))

Buffers == {Concat(ss) : ss \in UNION {[1..n -> Segments] : n \in 0..MaxSegs}}

VersionInit ==
    /\ buf \in Buffers
    /\ start = 0
    /\ end = -1
    /\ vpc = "loop"
    /\ result = <<>>
    /\ EngineIdle
    /\ DiscoveryIdle

VersionNext ==
    \/ ScanNoMarker
    \/ ScanNoNul
    \/ ScanOutOfRange
    \/ ScanReturn
    \/ ScanDecodeFailsNext
    \/ ScanDecodeFailsLast

\* The loop is the only thread of control: it keeps running until it returns.
VersionSpec == VersionInit /\ [][VersionNext]_vars /\ WF_vars(VersionNext)

----------------------------------------------------------------------------
\* Properties of parse_version.

\* Every 0-based position where the marker occurs in b.
Occurrences(b) ==
    {i \in 0..(Len(b) - Len(version_token)) :
        \A k \in 1..Len(version_token) : b[i + k] = version_token[k]}

\* The position of the next NUL after the occurrence at i, -1 when none.
SpanEnd(b, i) == index(b, <<NUL>>, i + 1)

\* The occurrences whose span, from the occurrence's start to the next NUL,
\* is longer than 15 and at most 1024 bytes.
Acceptable(b) ==
    {i \in Occurrences(b) :
        SpanEnd(b, i) # -1 /\ SpanEnd(b, i) - i > 15 /\ SpanEnd(b, i) - i <= 1024}

Least(S) == CHOOSE i \in S : \A j \in S : i <= j

\* The bytes of a span read as text, its trailing newlines removed.
TrimmedText(span) ==
    IF {i \in 1..Len(span) : span[i] # Newline} = {} THEN <<>>
    ELSE SubSeq(span, 1,
            CHOOSE i \in 1..Len(span) :
                span[i] # Newline /\ \A j \in (i + 1)..Len(span) : span[j] = Newline)

\* C8: the result is the text of the first occurrence, in buffer order, whose
\* span is acceptable, also when that occurrence lies inside the rejected
\* span of an earlier one; with no acceptable occurrence it is "UNAVAILABLE".
C8_FirstAcceptableOccurrence ==
    vpc = "done" =>
        IF Acceptable(buf) = {}
        THEN result = not_found
        ELSE LET i == Least(Acceptable(buf))
                 span == Slice(buf, i, SpanEnd(buf, i))
             IN  Decodes(span) => result = TrimmedText(span)

\* C9 as stated: for a buffer with at most one marker, the result is the
\* text between the marker and the following NUL exactly when the span length
\* L has 15 < L <= 1024, and "UNAVAILABLE" otherwise.
C9_SingleMarkerByLengthAlone ==
    (vpc = "done" /\ Cardinality(Occurrences(buf)) <= 1) =>
        IF Occurrences(buf) = {}
        THEN result = not_found
        ELSE LET i == Least(Occurrences(buf))
                 e == SpanEnd(buf, i)
             IN  IF e # -1 /\ e - i > 15 /\ e - i <= 1024
                 THEN result = TrimmedText(Slice(buf, i, e))
                 ELSE result = not_found

\* C9 amended: for a buffer with at most one marker, the result is the text
\* between the marker and the following NUL, trailing newlines removed,
\* exactly when 15 < L <= 1024 and the span is valid UTF-8; it is
\* "UNAVAILABLE" when L <= 15, when L > 1024, when no NUL follows, when the
\* span does not decode, and when there is no marker (the empty buffer too).
C9_SingleMarkerDecodable ==
    (vpc = "done" /\ Cardinality(Occurrences(buf)) <= 1) =>
        IF Occurrences(buf) = {}
        THEN result = not_found
        ELSE LET i == Least(Occurrences(buf))
                 e == SpanEnd(buf, i)
             IN  IF e # -1 /\ e - i > 15 /\ e - i <= 1024 /\ Decodes(Slice(buf, i, e))
                 THEN result = TrimmedText(Slice(buf, i, e)) /\ result # not_found
                 ELSE result = not_found

\* C9's case: a single marker whose span is exactly 1024 bytes long has been
\* returned.
C9_Witness ==
    /\ vpc = "done"
    /\ Cardinality(Occurrences(buf)) = 1
    /\ SpanEnd(buf, Least(Occurrences(buf))) - Least(Occurrences(buf)) = 1024
    /\ result = Slice(buf, start, end)
    /\ Len(result) = 1024

\* C10: the scan ends; every iteration that goes round moves start and end
\* past the previous end; a marker with no NUL after it ends the scan with
\* "UNAVAILABLE"; a span that does not decode sends the scan to the next
\* marker after that span, if there is one; and what is returned is
\* "UNAVAILABLE" or the text of a span (nothing is raised).
C10_TerminatesWithString ==
    /\ <>(vpc = "done")
    /\ [][vpc' = "loop" => end' > end /\ start' > end]_vars
    /\ [][(vpc = "loop" /\ NextStart # -1 /\ NextEnd = -1) =>
            (vpc' = "done" /\ result' = not_found)]_vars
    /\ [][(/\ vpc = "loop" /\ NextStart # -1 /\ NextEnd # -1
           /\ NextEnd - NextStart > 15 /\ NextEnd - NextStart <= 1024
           /\ ~Decodes(Slice(buf, NextStart, NextEnd))
           /\ index(buf, version_token, NextEnd + 1) # -1) =>
            (vpc' = "loop" /\ start' = index(buf, version_token, end' + 1))]_vars
    /\ [](vpc \in {"loop", "done"})
    /\ [](vpc = "done" =>
            \/ result = not_found
            \/ \E i \in Occurrences(buf) :
                  /\ SpanEnd(buf, i) # -1
                  /\ result = TrimmedText(Slice(buf, i, SpanEnd(buf, i))))

\* C10's case: a span that did not decode was passed over, the scan went on
\* to the next marker, which has no NUL after it, and ended there.
C10_Witness ==
    /\ vpc = "done"
    /\ result = not_found
    /\ Cardinality(Occurrences(buf)) = 2
    /\ ~Decodes(Slice(buf, Least(Occurrences(buf)), SpanEnd(buf, Least(Occurrences(buf)))))
    /\ start > end
    /\ SpanEnd(buf, start) = -1

----------------------------------------------------------------------------
\* mtd_device.__init__, lines 81-111.  Text is a sequence of one-character
\* strings.

\* Bound of the partition tables drawn: how many lines follow the header.
MaxLines == 3

\* The least index of t holding character c, 0 when there is none.
Find(t, c) ==
    IF {i \in 1..Len(t) : t[i] = c} = {} THEN 0
    ELSE CHOOSE i \in 1..Len(t) : t[i] = c /\ \A j \in 1..(i - 1) : t[j] # c

\* str.splitlines(): the text broken at its newlines; a newline that ends the
\* text starts no further line.
RECURSIVE splitlines(_)
splitlines(t) ==
    IF t = <<>> THEN <<>>
    ELSE LET nl == Find(t, "\n")
         IN  IF nl = 0 THEN <<t>>
             ELSE <<SubSeq(t, 1, nl - 1)>> \o splitlines(SubSeq(t, nl + 1, Len(t)))

\* str.split(sep): the text broken at every sep; two seps in a row, or a sep
\* at either end, give an empty field.
RECURSIVE split(_, _)
split(t, sep) ==
    LET i == Find(t, sep)
    IN  IF i = 0 THEN <<t>>
        ELSE <<SubSeq(t, 1, i - 1)>> \o split(SubSeq(t, i + 1, Len(t)), sep)

\* str.strip(c): every leading and trailing c removed.
strip_char(t, c) ==
    IF {i \in 1..Len(t) : t[i] # c} = {} THEN <<>>
    ELSE SubSeq(t,
            CHOOSE i \in 1..Len(t) : t[i] # c /\ \A j \in 1..(i - 1) : t[j] = c,
            CHOOSE i \in 1..Len(t) : t[i] # c /\ \A j \in (i + 1)..Len(t) : t[j] = c)

HexDigits == <<"0", "1", "2", "3", "4", "5", "6", "7", "8", "9", "a", "b", "c", "d", "e", "f">>
IsHex(f) == f # <<>> /\ \A i \in 1..Len(f) : \E d \in 1..16 : HexDigits[d] = f[i]
DigitValue(c) == (CHOOSE d \in 1..16 : HexDigits[d] = c) - 1

RECURSIVE HexValue(_)
HexValue(f) ==
    IF f = <<>> THEN 0 ELSE 16 * HexValue(SubSeq(f, 1, Len(f) - 1)) + DigitValue(f[Len(f)])

\* int('0x' + f, 0): the value of the hexadecimal digits of f; -1 stands for
\* the ValueError raised when f is empty or holds another character.
hex_field(f) == IF IsHex(f) THEN HexValue(f) ELSE -1

\* The names lines 94, 100 and 106 compare with.
PartitionName(section) ==
    CASE section = "spl" -> <<"s", "p", "l">>
      [] section = "uboot" -> <<"u", "-", "b", "o", "o", "t">>
      [] section = "uboot-second" -> <<"u", "-", "b", "o", "o", "t", "-", "s", "e", "c", "o", "n", "d">>

\* Lines 91-93: the fields of one line.  ok is FALSE when line 92 or line 93
\* raises: no second field, a second field that is not hexadecimal, no
\* fourth field.
ParseLine(s) ==
    LET f == split(s, " ")
    IN  IF Len(f) < 2 \/ hex_field(f[2]) = -1 \/ Len(f) < 4
        THEN [ok |-> FALSE, dev |-> <<>>, size |-> -1, name |-> <<>>]
        ELSE [ok |-> TRUE,
              dev |-> <<"/", "d", "e", "v", "/">> \o strip_char(f[1], ":"),
              size |-> hex_field(f[2]),
              name |-> strip_char(f[4], "\"")]

\* Lines 94-111: the entry a parsed line adds to self._partitions.
Register(parts, p, spl_offset, uboot_offset) ==
    [sec \in Sections |->
        IF p.name = PartitionName(sec)
        THEN Some([dev |-> p.dev, size |-> p.size,
                   offset |-> IF sec = "spl" THEN spl_offset ELSE uboot_offset])
        ELSE parts[sec]]

\* The partition tables drawn.
Header == <<"d", "e", "v", ":", " ", "s", "i", "z", "e", " ", "n", "a", "m", "e">>
Quoted(name) == <<"\"">> \o name \o <<"\"">>
TableLine(n, sizeHex, name) ==
    <<"m", "t", "d", n, ":", " ">> \o sizeHex \o <<" ", "1", "0", " ">> \o Quoted(name)

TableLines ==
    { TableLine("0", <<"1", "0">>, PartitionName("spl")),
      TableLine("1", <<"0", "a">>, PartitionName("uboot")),
      TableLine("2", <<"2", "0">>, PartitionName("uboot-second")),
      TableLine("3", <<"0", "4">>, PartitionName("uboot") \o <<" ", "e", "n", "v">>),
      TableLine("4", <<"0", "8">>, <<"e", "n", "v">>),
      TableLine("5", <<"z", "z">>, PartitionName("spl")),
      <<"m", "t", "d", "6", ":", " ", "1", "0">>,
      <<>> }

RECURSIVE JoinLines(_)
JoinLines(ls) == IF ls = <<>> THEN <<>> ELSE Head(ls) \o <<"\n">> \o JoinLines(Tail(ls))

Tables ==
    {<<>>} \cup
    {JoinLines(<<Header>> \o ls) : ls \in UNION {[1..n -> TableLines] : n \in 0..MaxLines}}

NoPartitions == [sec \in Sections |-> None]

\* mtd_device(device, spl_offset, uboot_offset) is being constructed; the
\* rest of the script has not run.
DiscoverInit ==
    /\ proc_mtd \in Tables
    /\ slist = <<>>
    /\ partitions = NoPartitions
    /\ dpc = "open"
    /\ \E so \in Offsets, uo \in Offsets : args = [spl_offset |-> so, uboot_offset |-> uo]
    /\ flash = <<>>
    /\ media = <<>>
    /\ media0 = <<>>
    /\ data = <<>>
    /\ pc = "idle"
    /\ idx = 0
    /\ gpioValue = 1
    /\ forceRo = 1
    /\ exc = FALSE
    /\ log = <<>>
    /\ exitStatus = -1
    /\ VersionIdle

\* Lines 85-87 on an empty file: pop(0) of an empty list raises IndexError.
DiscoverPopRaises ==
    /\ dpc = "open"
    /\ splitlines(proc_mtd) = <<>>
    /\ dpc' = "raised"
    /\ UNCHANGED <<proc_mtd, slist, partitions, engineVars, versionVars>>

\* Lines 85-87: read the file, split it into lines, drop the header.
DiscoverPop ==
    /\ dpc = "open"
    /\ splitlines(proc_mtd) # <<>>
    /\ slist' = Tail(splitlines(proc_mtd))
    /\ dpc' = "scan"
    /\ UNCHANGED <<proc_mtd, partitions, engineVars, versionVars>>

\* Lines 90-111, one iteration: the line's fields are taken and the
\* partition, if its name is one of the three, is entered.
DiscoverLine ==
    /\ dpc = "scan"
    /\ slist # <<>>
    /\ \E p \in {ParseLine(Head(slist))} :
          /\ p.ok
          /\ partitions' = Register(partitions, p, args.spl_offset, args.uboot_offset)
    /\ slist' = Tail(slist)
    /\ UNCHANGED <<proc_mtd, dpc, engineVars, versionVars>>

\* Lines 91-93 raising IndexError or ValueError: nothing catches it, the
\* constructor and the process end there.
DiscoverLineRaises ==
    /\ dpc = "scan"
    /\ slist # <<>>
    /\ ~ParseLine(Head(slist)).ok
    /\ dpc' = "raised"
    /\ UNCHANGED <<proc_mtd, slist, partitions, engineVars, versionVars>>

\* Line 90: no line is left; the constructor returns.
DiscoverDone ==
    /\ dpc = "scan"
    /\ slist = <<>>
    /\ dpc' = "done"
    /\ UNCHANGED <<proc_mtd, slist, partitions, engineVars, versionVars>>

DiscoverNext ==
    \/ DiscoverPopRaises
    \/ DiscoverPop
    \/ DiscoverLine
    \/ DiscoverLineRaises
    \/ DiscoverDone

DiscoverSpec == DiscoverInit /\ [][DiscoverNext]_vars

----------------------------------------------------------------------------
\* Properties of MTD discovery.

\* The lines of the table after its header.
TableRows == IF splitlines(proc_mtd) = <<>> THEN <<>> ELSE Tail(splitlines(proc_mtd))

\* What precedes the name of a line: the text before its first quote, broken
\* at the spaces.
RowHead(row) == split(SubSeq(row, 1, Find(row, "\"") - 1), " ")

\* A line of the shape <device-id>: <size-hex> <erase-size-hex> "<name>".
WellFormed(row) ==
    /\ Find(row, "\"") > 0
    /\ Len(row) > Find(row, "\"")
    /\ row[Len(row)] = "\""
    /\ Len(RowHead(row)) = 4
    /\ RowHead(row)[4] = <<>>
    /\ Len(RowHead(row)[1]) > 1
    /\ RowHead(row)[1][Len(RowHead(row)[1])] = ":"
    /\ IsHex(RowHead(row)[2])
    /\ IsHex(RowHead(row)[3])

\* The name of a well-formed line: what stands between its quotes.
RowName(row) == SubSeq(row, Find(row, "\"") + 1, Len(row) - 1)

\* The section a well-formed line stands for.
RowEntry(row, sec) ==
    [dev |-> <<"/", "d", "e", "v", "/">> \o SubSeq(RowHead(row)[1], 1, Len(RowHead(row)[1]) - 1),
     size |-> HexValue(RowHead(row)[2]),
     offset |-> IF sec = "spl" THEN args.spl_offset ELSE args.uboot_offset]

\* The well-formed lines whose name is exactly the partition name of sec.
RowsOf(sec) ==
    {i \in DOMAIN TableRows :
        WellFormed(TableRows[i]) /\ RowName(TableRows[i]) = PartitionName(sec)}

\* C17: when discovery has completed, a section exists exactly when the
\* table has a line whose name is exactly "spl", "u-boot" or "u-boot-second"
\* respectively, and its device path, its size read as hexadecimal and its
\* offset are those of such a line; every other name yields no section.
C17_SectionsExactlyForKnownNames ==
    dpc = "done" =>
        \A sec \in Sections :
            IF RowsOf(sec) = {}
            THEN partitions[sec] = None
            ELSE /\ partitions[sec] # None
                 /\ \E i \in RowsOf(sec) : partitions[sec][1] = RowEntry(TableRows[i], sec)

\* C18: with a header present discovery never raises, whatever the lines
\* after it, and once it has completed every well-formed line with one of the
\* three names has its section.
C18_MalformedLinesSkipped ==
    splitlines(proc_mtd) # <<>> =>
        /\ dpc # "raised"
        /\ dpc = "done" => \A sec \in Sections : RowsOf(sec) # {} => partitions[sec] # None

====
